---- MODULE Spec2Model ----
(***************************************************************************)
(* Model of the TrueNAS provisioning route (src/app/api/truenas/route.ts): *)
(* the POST handler, the fetchTrueNASAPI helper and the tier constants.    *)
(* JavaScript values are records [t, s, n]; strings are TLA+ strings, so   *)
(* template literals are \o and String.includes is a substring search.     *)
(***************************************************************************)
EXTENDS Integers, Sequences, FiniteSets, TLC

(* ------------------------- JavaScript values --------------------------- *)

Undef == [t |-> "undefined", s |-> "", n |-> 0]
Str(x) == [t |-> "string", s |-> x, n |-> 0]
Num(k) == [t |-> "number", s |-> "", n |-> k]

\* ToBoolean: undefined, "" and 0 are falsy.
Truthy(v) == \/ v.t = "string" /\ v.s # ""
             \/ v.t = "number" /\ v.n # 0

\* String(v), as a template literal `${v}` renders it.
ToStr(v) == CASE v.t = "string" -> v.s
              [] v.t = "number" -> ToString(v.n)
              [] OTHER -> "undefined"

\* String.prototype.includes
Includes(hay, needle) ==
    \E i \in 1..(Len(hay) - Len(needle) + 1) :
        SubSeq(hay, i, i + Len(needle) - 1) = needle

(* ------------- byte counts: exact integers above 2^31 ------------------ *)
\* A byte count is a little-endian sequence of base-10000 limbs, so that
\* 1024 * 1024 * 1024 * 1024 is computed exactly, as a JS double does.

RECURSIVE MulCarry(_, _, _)
MulCarry(x, k, c) ==
    IF x = <<>>
    THEN IF c = 0 THEN <<>> ELSE <<c % 10000>> \o MulCarry(<<>>, k, c \div 10000)
    ELSE LET p == Head(x) * k + c
         IN  <<p % 10000>> \o MulCarry(Tail(x), k, p \div 10000)

Mul(x, k) == MulCarry(x, k, 0)

Pad4(k) == IF k < 10 THEN "000" \o ToString(k)
           ELSE IF k < 100 THEN "00" \o ToString(k)
           ELSE IF k < 1000 THEN "0" \o ToString(k)
           ELSE ToString(k)

RECURSIVE BytesDigits(_)
BytesDigits(x) ==
    IF Len(x) = 1 THEN ToString(x[1])
    ELSE BytesDigits(SubSeq(x, 2, Len(x))) \o Pad4(x[1])

\* Number -> decimal text, as JSON.stringify and template literals print it.
BytesToStr(x) == IF x = <<>> THEN "0" ELSE BytesDigits(x)

(* ------------------------------ constants ------------------------------ *)

ONE_GB_IN_BYTES == Mul(Mul(<<1024>>, 1024), 1024)
QUOTA_TIER_100GB == Mul(ONE_GB_IN_BYTES, 100)
QUOTA_TIER_500GB == Mul(ONE_GB_IN_BYTES, 500)
QUOTA_TIER_1TB == Mul(ONE_GB_IN_BYTES, 1024)


(* --------------------------- inputs (bounded) -------------------------- *)

\* The request ids; Spec runs request 1 alone.
Requests == {1, 2}

Names == {Undef, Str(""), Str("u1")}
Passwords == {Undef, Str(""), Str("hunter2")}
UsageTypes == {Undef, Str(""), Str("personal"), Str("project"), Str("team")}

\* how far on either side of 0 and of each tier threshold the requested
\* quotas range
QuotaMargin == 1

Thresholds == {0, 100, 500, 1024}

StorageQuotas ==
    {Undef, Str("50")}
    \cup {Num(t + d) : t \in Thresholds, d \in (0 - QuotaMargin)..QuotaMargin}

\* The bodies request.json() can resolve to.
FormDatas == [name : Names, password : Passwords, usageType : UsageTypes,
              storageQuota : StorageQuotas]

\* process.env
Envs == [TRUENAS_URL : {Undef, Str("https://nas.example")},
         API_TOKEN : {Undef, Str("tok")},
         POOL_NAME : {Undef, Str("pool0"), Str("student-500")}]

\* What a fetch() can come back with: a transport failure, or an HTTP
\* response (status, statusText, the two headers read, the body text and
\* whether that text parses as JSON).
HttpResponse(st, stText, clen, ctype, txt, ok) ==
    [net |-> FALSE, status |-> st, statusText |-> stText, contentLength |-> clen,
     contentType |-> ctype, text |-> txt, parses |-> ok]

NetworkFailure ==
    [net |-> TRUE, status |-> 0, statusText |-> "fetch failed", contentLength |-> Undef,
     contentType |-> Undef, text |-> "", parses |-> FALSE]

FetchResults ==
    { NetworkFailure,
      HttpResponse(200, "OK", Str("9"), Str("application/json; charset=utf-8"),
                   "{\"id\":7}", TRUE),
      HttpResponse(200, "OK", Str("5"), Str("application/json"), "<html", FALSE),
      HttpResponse(200, "OK", Str("2"), Str("text/plain"), "ok", FALSE),
      HttpResponse(200, "OK", Str("0"), Str("application/json"), "", FALSE),
      HttpResponse(204, "No Content", Undef, Undef, "", FALSE),
      HttpResponse(422, "Unprocessable Entity", Str("60"), Str("application/json"),
                   "{\"message\":\"Parent dataset does not exist\"}", TRUE),
      HttpResponse(500, "Internal Server Error", Str("4"), Str("text/plain"),
                   "boom", FALSE) }

\* What the Supabase insert resolves to: { error: null } or { error: {message} }.
InsertResults == { [error |-> FALSE, message |-> ""],
                   [error |-> TRUE, message |-> "relation does not exist"] }

\* the reply of a call that is still awaited
NoReply == [awaited |-> TRUE]

\* new Date()
Dates == {"2025-04-01T00:00:00.000Z", "2025-04-02T00:00:00.000Z"}

(* -------------------------------- state -------------------------------- *)

VARIABLES
    env,                \* process.env (TRUENAS_URL, API_TOKEN, POOL_NAME)
    pc,                 \* position of each request in POST
    formData,           \* the parsed body
    datasetCreated, supabaseLogged, userCreated, aclSet,
    homeDirectoryPath, poolNameToUse, quotaInBytes,
    calls,              \* outbound calls issued (fetch and insert), in order
    console,            \* lines written to console.log / warn / error
    thrown,             \* message of the Error on its way to the catch block
    response            \* the NextResponse returned

vars == <<env, pc, formData, datasetCreated, supabaseLogged, userCreated, aclSet,
          homeDirectoryPath, poolNameToUse, quotaInBytes, calls, console, thrown,
          response>>

NoFormData == [name |-> Undef, password |-> Undef, usageType |-> Undef,
               storageQuota |-> Undef]

NoResponse == [status |-> 0, body |-> [message |-> ""]]

Init ==
    /\ env \in Envs
    /\ pc = [r \in Requests |-> "idle"]
    /\ formData = [r \in Requests |-> NoFormData]
    /\ datasetCreated = [r \in Requests |-> FALSE]
    /\ supabaseLogged = [r \in Requests |-> FALSE]
    /\ userCreated = [r \in Requests |-> FALSE]
    /\ aclSet = [r \in Requests |-> FALSE]
    /\ homeDirectoryPath = [r \in Requests |-> Undef]
    /\ poolNameToUse = [r \in Requests |-> Undef]
    /\ quotaInBytes = [r \in Requests |-> <<>>]
    /\ calls = [r \in Requests |-> <<>>]
    /\ console = [r \in Requests |-> <<>>]
    /\ thrown = [r \in Requests |-> ""]
    /\ response = [r \in Requests |-> NoResponse]

\* const POOL_NAME = process.env.POOL_NAME || 'tank'
POOL_NAME == IF Truthy(env.POOL_NAME) THEN env.POOL_NAME.s ELSE "tank"

Line(level, text) == [level |-> level, text |-> text]

Log(r, lines) == console' = [console EXCEPT ![r] = @ \o lines]

Respond(r, st, bd) ==
    /\ response' = [response EXCEPT ![r] = [status |-> st, body |-> bd]]
    /\ pc' = [pc EXCEPT ![r] = "done"]

Throw(r, msg) ==
    /\ thrown' = [thrown EXCEPT ![r] = msg]
    /\ pc' = [pc EXCEPT ![r] = "catch"]

Goto(r, label) == pc' = [pc EXCEPT ![r] = label]


(* ------------------------------ tier policy ---------------------------- *)

\* the tier thresholds read as exclusive upper bounds
TierOfExclusive(q) ==
    IF q < 100 THEN [pool |-> "student-50-100", quota |-> QUOTA_TIER_100GB, warn |-> FALSE]
    ELSE IF q < 500 THEN [pool |-> "student-500", quota |-> QUOTA_TIER_500GB, warn |-> FALSE]
    ELSE IF q < 1024 THEN [pool |-> "student-1000", quota |-> QUOTA_TIER_1TB, warn |-> FALSE]
    ELSE [pool |-> "student-1000", quota |-> QUOTA_TIER_1TB, warn |-> TRUE]

\* The pool and quota chosen for a positive storageQuota (in GB); warn is
\* the console.warn of the over-1TB branch.
TierOf(q) ==
    IF q <= 100 THEN [pool |-> "student-50-100", quota |-> QUOTA_TIER_100GB, warn |-> FALSE]
    ELSE IF q <= 500 THEN [pool |-> "student-500", quota |-> QUOTA_TIER_500GB, warn |-> FALSE]
    ELSE IF q <= 1024 THEN [pool |-> "student-1000", quota |-> QUOTA_TIER_1TB, warn |-> FALSE]
    ELSE [pool |-> "student-1000", quota |-> QUOTA_TIER_1TB, warn |-> TRUE]

(* ------------------------------- payloads ------------------------------ *)

\* the first `if` of POST without its password test
InvalidInputNoPassword(f) ==
    \/ ~Truthy(f.name)
    \/ ~Truthy(f.usageType)
    \/ /\ f.usageType = Str("personal")
       /\ (f.storageQuota.t # "number" \/ f.storageQuota.n <= 0)

\* the condition of the first `if` of POST
InvalidInput(f) ==
    \/ ~Truthy(f.name)
    \/ ~Truthy(f.password)
    \/ ~Truthy(f.usageType)
    \/ /\ f.usageType = Str("personal")
       /\ (f.storageQuota.t # "number" \/ f.storageQuota.n <= 0)

DatasetPath(r) == ToStr(poolNameToUse[r]) \o "/users/" \o ToStr(formData[r].name)

DatasetPayload(r) ==
    [name |-> DatasetPath(r), type |-> "FILESYSTEM", quota |-> quotaInBytes[r]]

\* the user payload with the home always built from POOL_NAME
UserPayloadDefaultHome(r) ==
    [username |-> ToStr(formData[r].name),
     password |-> ToStr(formData[r].password),
     full_name |-> ToStr(formData[r].name),
     home |-> "/mnt/" \o POOL_NAME \o "/users/" \o ToStr(formData[r].name),
     shell |-> "/usr/sbin/nologin",
     group_create |-> TRUE]

\* userPayload, with home overwritten by homeDirectoryPath when it is set
UserPayload(r) ==
    [username |-> ToStr(formData[r].name),
     password |-> ToStr(formData[r].password),
     full_name |-> ToStr(formData[r].name),
     home |-> IF Truthy(homeDirectoryPath[r]) THEN homeDirectoryPath[r].s
              ELSE "/mnt/" \o POOL_NAME \o "/users/" \o ToStr(formData[r].name),
     shell |-> "/usr/sbin/nologin",
     group_create |-> TRUE]

AclPayload(r) ==
    [path |-> "/mnt/" \o ToStr(poolNameToUse[r]) \o "/users/" \o ToStr(formData[r].name),
     dacl |-> TRUE,
     aces |-> << [tag |-> "USER",
                  id |-> ToStr(formData[r].name),
                  type |-> "ALLOW",
                  perms |-> [BASIC_READ |-> TRUE, BASIC_WRITE |-> TRUE,
                             BASIC_EXECUTE |-> TRUE, DELETE_CHILD |-> TRUE,
                             DELETE_SELF |-> TRUE],
                  flags |-> [FILE_INHERIT |-> TRUE, DIRECTORY_INHERIT |-> TRUE,
                             NO_PROPAGATE_INHERIT |-> FALSE, INHERIT_ONLY |-> FALSE]] >>]

\* storageQuota || null, with null rendered as Undef
QuotaOrNull(v) == IF Truthy(v) THEN v ELSE Undef

\* the row with the password column left in
LogRowWithPassword(r, date) ==
    [user_name |-> formData[r].name,
     requested_quota_gb |-> QuotaOrNull(formData[r].storageQuota),
     password |-> formData[r].password,
     created_at |-> Str(date)]

\* the row handed to supabase.from('project_requests').insert
LogRow(r, date) ==
    [user_name |-> formData[r].name,
     requested_quota_gb |-> QuotaOrNull(formData[r].storageQuota),
     created_at |-> Str(date)]

(* ------------------- JSON.stringify(body, null, 2) --------------------- *)

Quoted(x) == "\"" \o x \o "\""
Bool(b) == IF b THEN "true" ELSE "false"

JsonDataset(p) ==
    "{\n  \"name\": " \o Quoted(p.name) \o ",\n  \"type\": " \o Quoted(p.type)
    \o ",\n  \"quota\": " \o BytesToStr(p.quota) \o "\n}"

JsonUser(p) ==
    "{\n  \"username\": " \o Quoted(p.username)
    \o ",\n  \"password\": " \o Quoted(p.password)
    \o ",\n  \"full_name\": " \o Quoted(p.full_name)
    \o ",\n  \"home\": " \o Quoted(p.home)
    \o ",\n  \"shell\": " \o Quoted(p.shell)
    \o ",\n  \"group_create\": " \o Bool(p.group_create) \o "\n}"

JsonAce(a) ==
    "    {\n      \"tag\": " \o Quoted(a.tag) \o ",\n      \"id\": " \o Quoted(a.id)
    \o ",\n      \"type\": " \o Quoted(a.type)
    \o ",\n      \"perms\": {\n        \"BASIC_READ\": " \o Bool(a.perms.BASIC_READ)
    \o ",\n        \"BASIC_WRITE\": " \o Bool(a.perms.BASIC_WRITE)
    \o ",\n        \"BASIC_EXECUTE\": " \o Bool(a.perms.BASIC_EXECUTE)
    \o ",\n        \"DELETE_CHILD\": " \o Bool(a.perms.DELETE_CHILD)
    \o ",\n        \"DELETE_SELF\": " \o Bool(a.perms.DELETE_SELF)
    \o "\n      },\n      \"flags\": {\n        \"FILE_INHERIT\": " \o Bool(a.flags.FILE_INHERIT)
    \o ",\n        \"DIRECTORY_INHERIT\": " \o Bool(a.flags.DIRECTORY_INHERIT)
    \o ",\n        \"NO_PROPAGATE_INHERIT\": " \o Bool(a.flags.NO_PROPAGATE_INHERIT)
    \o ",\n        \"INHERIT_ONLY\": " \o Bool(a.flags.INHERIT_ONLY)
    \o "\n      }\n    }"

JsonAcl(p) ==
    "{\n  \"path\": " \o Quoted(p.path) \o ",\n  \"dacl\": " \o Bool(p.dacl)
    \o ",\n  \"aces\": [\n" \o JsonAce(p.aces[1]) \o "\n  ]\n}"

(* --------------------------- fetchTrueNASAPI --------------------------- *)

\* Up to the fetch(): the two console lines and the request put on the wire.
FetchCall(r, url, method, apiKey, body, json) ==
    /\ Log(r, << Line("log", "Calling TrueNAS API: " \o method \o " " \o url),
                 Line("log", "Payload: " \o json) >>)
    /\ calls' = [calls EXCEPT ![r] = Append(@,
                    [url |-> url, method |-> method,
                     authorization |-> "Bearer " \o apiKey, body |-> body,
                     outcome |-> "pending", reply |-> NoReply, error |-> ""])]

\* The awaited call of request r settles: what came back (reply), whether
\* the await returned or threw, and the message of the Error thrown.
Settle(r, res, threw, msg) ==
    calls' = [calls EXCEPT ![r][Len(calls[r])] =
                 [@ EXCEPT !.outcome = IF threw THEN "threw" ELSE "returned",
                           !.reply = res,
                           !.error = IF threw THEN msg ELSE ""]]

IsOk(res) == res.status >= 200 /\ res.status <= 299

\* the helper handing back the raw text of a body it cannot decode
FetchReturnTolerant(res) ==
    IF res.net
    THEN [threw |-> TRUE, message |-> res.statusText, lines |-> <<>>]
    ELSE IF ~IsOk(res)
    THEN [threw |-> TRUE,
          message |-> "TrueNAS API request failed: " \o ToString(res.status) \o " "
                      \o res.statusText \o " - " \o res.text,
          lines |-> << Line("error", "TrueNAS API Error (" \o ToString(res.status)
                                      \o "): " \o res.text) >>]
    ELSE IF res.status = 204 \/ res.contentLength = Str("0")
    THEN [threw |-> FALSE, message |-> "",
          lines |-> << Line("log", "TrueNAS API Response: No content.") >>]
    ELSE IF ~(res.contentType.t = "string"
              /\ Includes(res.contentType.s, "application/json"))
    THEN [threw |-> FALSE, message |-> "",
          lines |-> << Line("log", "TrueNAS API Response: Not JSON.") >>]
    ELSE [threw |-> FALSE, message |-> "",
          lines |-> << Line("log", "TrueNAS API Response: " \o res.text) >>]

\* From the fetch() result on: whether the helper throws, the Error message
\* it throws with, and the console lines it writes.
FetchReturn(res) ==
    IF res.net
    THEN [threw |-> TRUE, message |-> res.statusText, lines |-> <<>>]
    ELSE IF ~IsOk(res)
    THEN [threw |-> TRUE,
          message |-> "TrueNAS API request failed: " \o ToString(res.status) \o " "
                      \o res.statusText \o " - " \o res.text,
          lines |-> << Line("error", "TrueNAS API Error (" \o ToString(res.status)
                                      \o "): " \o res.text) >>]
    ELSE IF res.status = 204 \/ res.contentLength = Str("0")
    THEN [threw |-> FALSE, message |-> "",
          lines |-> << Line("log", "TrueNAS API Response: No content.") >>]
    ELSE IF ~(res.contentType.t = "string"
              /\ Includes(res.contentType.s, "application/json"))
    THEN [threw |-> FALSE, message |-> "",
          lines |-> << Line("log", "TrueNAS API Response: Not JSON.") >>]
    ELSE IF res.parses
    THEN [threw |-> FALSE, message |-> "",
          lines |-> << Line("log", "TrueNAS API Response: " \o res.text) >>]
    ELSE [threw |-> TRUE, message |-> "Failed to parse TrueNAS API JSON response.",
          lines |-> << Line("error", "Error parsing JSON response: SyntaxError") >>]


(* --------------------------------- POST -------------------------------- *)

flags == <<datasetCreated, supabaseLogged, userCreated, aclSet>>
locals == <<homeDirectoryPath, poolNameToUse, quotaInBytes>>

\* const formData = await request.json(): the body parses to an object, or
\* request.json() rejects and the catch block takes over.
ParseBody(r) ==
    /\ pc[r] = "idle"
    /\ \/ \E f \in FormDatas :
             /\ formData' = [formData EXCEPT ![r] = f]
             /\ Goto(r, "validate")
             /\ UNCHANGED thrown
       \/ /\ Throw(r, "Unexpected end of JSON input")
          /\ UNCHANGED formData
    /\ UNCHANGED <<env, flags, locals, calls, console, response>>

\* the first `if`: 400 on invalid input
Validate(r) ==
    /\ pc[r] = "validate"
    /\ IF InvalidInput(formData[r])
       THEN Respond(r, 400, [message |-> "Invalid input data"])
       ELSE Goto(r, "config") /\ UNCHANGED response
    /\ UNCHANGED <<env, formData, flags, locals, calls, console, thrown>>

\* the configuration test rejecting only when both values are absent
ConfigIncompleteBoth == ~Truthy(env.TRUENAS_URL) /\ ~Truthy(env.API_TOKEN)

\* !truenasUrl || !truenasApiKey
ConfigIncomplete == ~Truthy(env.TRUENAS_URL) \/ ~Truthy(env.API_TOKEN)

\* the TRUENAS_URL / API_TOKEN check and the "Processing request" line
CheckConfig(r) ==
    /\ pc[r] = "config"
    /\ IF ConfigIncomplete
       THEN /\ Log(r, << Line("error", "TrueNAS API URL or Token is not configured.") >>)
            /\ Respond(r, 500, [message |-> "Server configuration error"])
       ELSE /\ Log(r, << Line("log", "Processing request for user: "
                                     \o ToStr(formData[r].name) \o " Usage type: "
                                     \o ToStr(formData[r].usageType)) >>)
            /\ Goto(r, IF formData[r].usageType = Str("personal") THEN "tier" ELSE "user")
            /\ UNCHANGED response
    /\ UNCHANGED <<env, formData, flags, locals, calls, thrown>>

\* personal: the quota re-check, the tier choice and the paths
SelectTier(r) ==
    /\ pc[r] = "tier"
    /\ LET q == formData[r].storageQuota
           tier == TierOf(q.n)
           head == Line("log", "Personal usage: Determining pool and creating dataset.")
       IN  IF q.t # "number" \/ q.n <= 0
           THEN /\ Log(r, <<head>>)
                /\ Respond(r, 400, [message |-> "Invalid storage quota for personal usage"])
                /\ UNCHANGED <<locals, thrown>>
           ELSE /\ Log(r, <<head>>
                          \o (IF tier.warn
                              THEN << Line("warn", "Requested quota " \o ToStr(q)
                                           \o "GB exceeds 1TB. Assigning to pool "
                                           \o tier.pool \o " with quota "
                                           \o BytesToStr(tier.quota) \o ". Review policy.") >>
                              ELSE <<>>)
                          \o << Line("log", "Storage quota " \o ToStr(q)
                                      \o "GB maps to Pool: " \o tier.pool
                                      \o ", Quota Bytes: " \o BytesToStr(tier.quota)) >>)
                /\ poolNameToUse' = [poolNameToUse EXCEPT ![r] = Str(tier.pool)]
                /\ quotaInBytes' = [quotaInBytes EXCEPT ![r] = tier.quota]
                /\ IF tier.pool = ""
                   THEN /\ Throw(r, "Could not determine pool name for quota "
                                    \o ToStr(q) \o "GB.")
                        /\ UNCHANGED homeDirectoryPath
                   ELSE /\ homeDirectoryPath' = [homeDirectoryPath EXCEPT ![r] =
                              Str("/mnt/" \o tier.pool \o "/users/" \o ToStr(formData[r].name))]
                        /\ Goto(r, "dataset")
                        /\ UNCHANGED thrown
                /\ UNCHANGED response
    /\ UNCHANGED <<env, formData, flags, calls>>

\* 1a. the create-dataset call goes out
CreateDataset(r) ==
    /\ pc[r] = "dataset"
    /\ FetchCall(r, ToStr(env.TRUENAS_URL) \o "/api/v2.0/pool/dataset", "POST",
                 ToStr(env.API_TOKEN), DatasetPayload(r), JsonDataset(DatasetPayload(r)))
    /\ Goto(r, "dataset_wait")
    /\ UNCHANGED <<env, formData, flags, locals, thrown, response>>

\* the inner catch block logging the error without rethrowing it
DatasetFailedSwallowed(r, out) ==
    /\ Log(r, out.lines \o << Line("error",
            "Failed to create dataset, aborting user creation. Error: " \o out.message) >>)
    /\ Goto(r, "user")
    /\ UNCHANGED <<datasetCreated, thrown>>

\* the inner catch block without its parent-missing case
DatasetFailedGeneric(r, out) ==
    /\ Log(r, out.lines \o << Line("error",
            "Failed to create dataset, aborting user creation. Error: " \o out.message) >>)
    /\ Throw(r, "Failed to create prerequisite dataset " \o DatasetPath(r)
                \o ". User not created. Original error: " \o out.message)
    /\ UNCHANGED datasetCreated

\* the inner catch block: the dataset error is rethrown with a new message
DatasetFailed(r, out) ==
    /\ Log(r, out.lines \o << Line("error",
            "Failed to create dataset, aborting user creation. Error: " \o out.message) >>)
    /\ Throw(r, IF Includes(out.message, "Parent dataset does not exist")
                THEN "Parent dataset for " \o DatasetPath(r)
                     \o " does not exist. Please create it first."
                ELSE "Failed to create prerequisite dataset " \o DatasetPath(r)
                     \o ". User not created. Original error: " \o out.message)
    /\ UNCHANGED datasetCreated

\* datasetCreated kept in one variable of the module, shared by all requests
DatasetSucceededSharedFlag(r, out) ==
    /\ Log(r, out.lines \o << Line("log", "TrueNAS dataset " \o DatasetPath(r)
                                          \o " created successfully.") >>)
    /\ datasetCreated' = [o \in Requests |-> TRUE]
    /\ Goto(r, "user")
    /\ UNCHANGED thrown

\* the create-dataset call returns: datasetCreated = true
DatasetSucceeded(r, out) ==
    /\ Log(r, out.lines \o << Line("log", "TrueNAS dataset " \o DatasetPath(r)
                                          \o " created successfully.") >>)
    /\ datasetCreated' = [datasetCreated EXCEPT ![r] = TRUE]
    /\ Goto(r, "user")
    /\ UNCHANGED thrown

\* the create-dataset call comes back: datasetCreated, or the inner catch
DatasetReturn(r) ==
    /\ pc[r] = "dataset_wait"
    /\ \E res \in FetchResults :
         LET out == FetchReturn(res) IN
         /\ Settle(r, res, out.threw, out.message)
         /\ IF ~out.threw
            THEN DatasetSucceeded(r, out)
            ELSE DatasetFailed(r, out)
    /\ UNCHANGED <<env, formData, supabaseLogged, userCreated, aclSet, locals, response>>

\* 2. the create-user call goes out
CreateUser(r) ==
    /\ pc[r] = "user"
    /\ FetchCall(r, ToStr(env.TRUENAS_URL) \o "/api/v2.0/user", "POST",
                 ToStr(env.API_TOKEN), UserPayload(r), JsonUser(UserPayload(r)))
    /\ Goto(r, "user_wait")
    /\ UNCHANGED <<env, formData, flags, locals, thrown, response>>

\* the create-user call not awaited: its failure is lost and the handler
\* goes on as after a success
UserFailedUnawaited(r, out) ==
    /\ Log(r, out.lines \o << Line("log", "TrueNAS user "
                    \o ToStr(formData[r].name) \o " created successfully.") >>)
    /\ userCreated' = [userCreated EXCEPT ![r] = TRUE]
    /\ Goto(r, "branch")
    /\ UNCHANGED thrown

\* the create-user call tried again after a failure
UserFailedRetry(r, out) ==
    /\ Log(r, out.lines)
    /\ Goto(r, "user")
    /\ UNCHANGED <<userCreated, thrown>>

\* the create-user call throws: nothing after it runs
UserFailed(r, out) ==
    /\ Log(r, out.lines)
    /\ Throw(r, out.message)
    /\ UNCHANGED userCreated

\* the create-user call comes back: userCreated, or the error propagates
UserReturn(r) ==
    /\ pc[r] = "user_wait"
    /\ \E res \in FetchResults :
         LET out == FetchReturn(res) IN
         /\ Settle(r, res, out.threw, out.message)
         /\ IF ~out.threw
            THEN /\ Log(r, out.lines \o << Line("log", "TrueNAS user "
                             \o ToStr(formData[r].name) \o " created successfully.") >>)
                 /\ userCreated' = [userCreated EXCEPT ![r] = TRUE]
                 /\ Goto(r, "branch")
                 /\ UNCHANGED thrown
            ELSE UserFailed(r, out)
    /\ UNCHANGED <<env, formData, datasetCreated, supabaseLogged, aclSet, locals, response>>

\* step 3 guarded by the flag it is about to set
AclBranchWrongFlag(r) ==
    /\ formData[r].usageType = Str("personal")
    /\ datasetCreated[r]
    /\ aclSet[r]
    /\ Truthy(poolNameToUse[r])

\* the condition of the `if` of step 3
AclBranch(r) ==
    /\ formData[r].usageType = Str("personal")
    /\ datasetCreated[r]
    /\ userCreated[r]
    /\ Truthy(poolNameToUse[r])

\* step 4 guarded by the flag it is about to set
LogBranchWrongFlag(r) ==
    /\ ~AclBranch(r)
    /\ formData[r].usageType = Str("project")
    /\ supabaseLogged[r]

\* step 4 as an `if` of its own that tests userCreated alone
LogBranchNoUsageTest(r) == userCreated[r]

\* the condition of its `else if`
LogBranch(r) ==
    /\ ~AclBranch(r)
    /\ formData[r].usageType = Str("project")
    /\ userCreated[r]

\* 3. personal: the setacl call goes out
ApplyAcl(r) ==
    /\ pc[r] = "branch"
    /\ AclBranch(r)
    /\ FetchCall(r, ToStr(env.TRUENAS_URL) \o "/api/v2.0/filesystem/setacl", "POST",
                 ToStr(env.API_TOKEN), AclPayload(r), JsonAcl(AclPayload(r)))
    /\ Goto(r, "acl_wait")
    /\ UNCHANGED <<env, formData, flags, locals, thrown, response>>

\* the setacl failure logged and passed over
AclFailedIgnored(r, out) ==
    /\ Log(r, out.lines)
    /\ Goto(r, "success")
    /\ UNCHANGED <<aclSet, thrown>>

\* the setacl call throws: the error goes to the catch block
AclFailed(r, out) ==
    /\ Log(r, out.lines)
    /\ Throw(r, out.message)
    /\ UNCHANGED aclSet

\* the setacl call comes back: aclSet, or the error propagates
AclReturn(r) ==
    /\ pc[r] = "acl_wait"
    /\ \E res \in FetchResults :
         LET out == FetchReturn(res) IN
         /\ Settle(r, res, out.threw, out.message)
         /\ IF ~out.threw
            THEN /\ Log(r, out.lines \o << Line("log", "ACL set successfully for "
                                                       \o AclPayload(r).path) >>)
                 /\ aclSet' = [aclSet EXCEPT ![r] = TRUE]
                 /\ Goto(r, "success")
                 /\ UNCHANGED thrown
            ELSE AclFailed(r, out)
    /\ UNCHANGED <<env, formData, datasetCreated, supabaseLogged, userCreated, locals,
                   response>>

\* 4. project: the insert into project_requests goes out
InsertLog(r) ==
    /\ pc[r] = "branch"
    /\ LogBranch(r)
    /\ Log(r, << Line("log", "Project usage: Saving data to Supabase.") >>)
    /\ \E date \in Dates :
         calls' = [calls EXCEPT ![r] = Append(@,
                     [url |-> "supabase:project_requests", method |-> "insert",
                      authorization |-> "", body |-> LogRow(r, date),
                      outcome |-> "pending", reply |-> NoReply, error |-> ""])]
    /\ Goto(r, "log_wait")
    /\ UNCHANGED <<env, formData, flags, locals, thrown, response>>

\* the insert comes back: supabaseLogged, or an Error is thrown
InsertReturn(r) ==
    /\ pc[r] = "log_wait"
    /\ \E res \in InsertResults :
         /\ Settle(r, res, res.error,
                   "Failed to save project request to Supabase: " \o res.message)
         /\ IF ~res.error
            THEN /\ Log(r, << Line("log", "Project request for user "
                                  \o ToStr(formData[r].name) \o " saved to Supabase.") >>)
                 /\ supabaseLogged' = [supabaseLogged EXCEPT ![r] = TRUE]
                 /\ Goto(r, "success")
                 /\ UNCHANGED thrown
            ELSE /\ Log(r, << Line("error", "Error saving to Supabase: " \o res.message) >>)
                 /\ Throw(r, "Failed to save project request to Supabase: " \o res.message)
                 /\ UNCHANGED supabaseLogged
    /\ UNCHANGED <<env, formData, datasetCreated, userCreated, aclSet, locals, response>>

\* neither branch of step 3/4 applies
SkipBranch(r) ==
    /\ pc[r] = "branch"
    /\ ~AclBranch(r)
    /\ ~LogBranch(r)
    /\ Goto(r, "success")
    /\ UNCHANGED <<env, formData, flags, locals, calls, console, thrown, response>>

\* the success path ending without returning a response
SuccessNoReturn(r) ==
    /\ pc[r] = "success"
    /\ Goto(r, "done")
    /\ UNCHANGED <<env, formData, flags, locals, calls, console, thrown, response>>

\* the success message and the 200 response
Success(r) ==
    /\ pc[r] = "success"
    /\ Respond(r, 200,
         [message |-> "TrueNAS user " \o ToStr(formData[r].name) \o " created successfully."
            \o (IF datasetCreated[r] /\ aclSet[r]
                THEN " Personal dataset created in pool " \o ToStr(poolNameToUse[r])
                     \o " and ACL configured."
                ELSE IF supabaseLogged[r]
                THEN " Project request logged to Supabase."
                ELSE "")])
    /\ UNCHANGED <<env, formData, flags, locals, calls, console, thrown>>

\* the outer catch block: the 500 response
Catch(r) ==
    /\ pc[r] = "catch"
    /\ Log(r, << Line("error", "Error processing request: Error: " \o thrown[r]) >>)
    /\ Respond(r, 500, [message |-> "Failed to process request", error |-> thrown[r]])
    /\ UNCHANGED <<env, formData, flags, locals, calls, thrown>>

POST(r) ==
    \/ ParseBody(r)
    \/ Validate(r)
    \/ CheckConfig(r)
    \/ SelectTier(r)
    \/ CreateDataset(r)
    \/ DatasetReturn(r)
    \/ CreateUser(r)
    \/ UserReturn(r)
    \/ ApplyAcl(r)
    \/ AclReturn(r)
    \/ InsertLog(r)
    \/ InsertReturn(r)
    \/ SkipBranch(r)
    \/ Success(r)
    \/ Catch(r)

\* one request, handled from arrival to response
Next == POST(1)

Spec == Init /\ [][Next]_vars

\* the same request with its handler always resumed: every awaited call
\* comes back and every continuation is run
FairSpec == Spec /\ WF_vars(Next)

(* ------------------------ two concurrent requests ---------------------- *)

\* the bodies, replies and date the two-request runs draw from
ConcBodies ==
    { [name |-> Str("u1"), password |-> Str("hunter2"), usageType |-> Str("personal"),
       storageQuota |-> Num(100)],
      [name |-> Str("u1"), password |-> Str("hunter2"), usageType |-> Str("project"),
       storageQuota |-> Num(101)],
      [name |-> Str("u1"), password |-> Str("hunter2"), usageType |-> Str("team"),
       storageQuota |-> Undef],
      [name |-> Str("u1"), password |-> Undef, usageType |-> Str("personal"),
       storageQuota |-> Num(100)] }

ConcReplies == {res \in FetchResults : ~res.net /\ res.status \in {200, 422} /\ res.parses}

ConcDate == "2025-04-01T00:00:00.000Z"

InScope ==
    \A r \in Requests :
        /\ \/ pc[r] = "idle"
           \/ thrown[r] = "Unexpected end of JSON input"
           \/ formData[r] \in ConcBodies
        /\ \A i \in 1..Len(calls[r]) :
               IF calls[r][i].url = "supabase:project_requests"
               THEN calls[r][i].body.created_at = Str(ConcDate)
               ELSE calls[r][i].reply \in ConcReplies \cup {NoReply}

\* the server configured, with POOL_NAME unset
InitConc == Init /\ env = [TRUENAS_URL |-> Str("https://nas.example"),
                           API_TOKEN |-> Str("tok"), POOL_NAME |-> Undef]

\* two invocations of POST in flight, their steps interleaved at the awaits
NextConc ==
    \E r \in Requests :
        \/ ParseBody(r) /\ InScope'
        \/ Validate(r) /\ InScope'
        \/ CheckConfig(r) /\ InScope'
        \/ SelectTier(r) /\ InScope'
        \/ CreateDataset(r) /\ InScope'
        \/ DatasetReturn(r) /\ InScope'
        \/ CreateUser(r) /\ InScope'
        \/ UserReturn(r) /\ InScope'
        \/ ApplyAcl(r) /\ InScope'
        \/ AclReturn(r) /\ InScope'
        \/ InsertLog(r) /\ InScope'
        \/ InsertReturn(r) /\ InScope'
        \/ SkipBranch(r) /\ InScope'
        \/ Success(r) /\ InScope'
        \/ Catch(r) /\ InScope'

SpecConc == InitConc /\ [][NextConc]_vars


(* ------------------------- observing a request ------------------------- *)

DatasetUrl == ToStr(env.TRUENAS_URL) \o "/api/v2.0/pool/dataset"
UserUrl == ToStr(env.TRUENAS_URL) \o "/api/v2.0/user"
AclUrl == ToStr(env.TRUENAS_URL) \o "/api/v2.0/filesystem/setacl"
LogTable == "supabase:project_requests"

\* the targets of the calls a request has issued, in order
Targets(r) == [i \in 1..Len(calls[r]) |-> calls[r][i].url]

Issued(r, url) == \E i \in 1..Len(calls[r]) : calls[r][i].url = url

\* the call to url was issued and has come back as a failure
Failed(r, url) ==
    \E i \in 1..Len(calls[r]) : calls[r][i].url = url /\ calls[r][i].outcome = "threw"

IsPersonal(r) == formData[r].usageType = Str("personal")
IsProject(r) == formData[r].usageType = Str("project")

Answered(r, st) == pc[r] = "done" /\ response[r].status = st

\* the body was parsed and the first `if` has been evaluated on it
Validated(r) == pc[r] \notin {"idle", "validate"} /\ thrown[r] # "Unexpected end of JSON input"

\* a required field that is absent or empty
Missing(v) == v = Undef \/ v = Str("")

\* the request fails validation, in the words of the request contract:
\* name, password or usageType missing or empty, or usageType personal with
\* a storageQuota that is not a number or not above 0
FailsValidation(f) ==
    \/ Missing(f.name) \/ Missing(f.password) \/ Missing(f.usageType)
    \/ /\ f.usageType = Str("personal")
       /\ ~(f.storageQuota.t = "number" /\ f.storageQuota.n > 0)

Configured == env.TRUENAS_URL # Undef /\ env.API_TOKEN # Undef

NoFlag(r) ==
    ~datasetCreated[r] /\ ~userCreated[r] /\ ~aclSet[r] /\ ~supabaseLogged[r]

(* -------------------------------- claims ------------------------------- *)

\* C1: once the create-dataset call of a personal request has failed, the
\* request has issued no other call (no create-account, no setacl, no log
\* insert), it is in the catch block or answered, and its answer is a 500.
C1_DatasetFailureAborts ==
    \A r \in Requests :
        (IsPersonal(r) /\ Failed(r, DatasetUrl)) =>
            /\ Targets(r) = <<DatasetUrl>>
            /\ pc[r] \in {"catch", "done"}
            /\ pc[r] = "done" => response[r].status = 500

C1_Witness ==
    \E r \in Requests : IsPersonal(r) /\ Failed(r, DatasetUrl) /\ Answered(r, 500)

\* C2: once the create-account call has failed, for a personal and for a
\* project request alike, neither the setacl call nor the log insert is issued.
C2_AccountFailureStopsBranch ==
    \A r \in Requests :
        Failed(r, UserUrl) => ~Issued(r, AclUrl) /\ ~Issued(r, LogTable)

C2_Witness ==
    \E r \in Requests : IsProject(r) /\ Failed(r, UserUrl) /\ pc[r] = "done"

\* C3: a personal request answered 200 has issued exactly three calls, once
\* each and in the order create-dataset, create-account, setacl, and no log
\* insert.
C3_PersonalSuccessCalls ==
    \A r \in Requests :
        (IsPersonal(r) /\ Answered(r, 200)) =>
            Targets(r) = <<DatasetUrl, UserUrl, AclUrl>>

C3_Witness ==
    \E r \in Requests : IsPersonal(r) /\ Answered(r, 200) /\ aclSet[r]

\* C4: a project request answered 200 has issued exactly the create-account
\* call followed by one log insert, and never the create-dataset or setacl
\* call.
C4_ProjectSuccessCalls ==
    \A r \in Requests :
        (IsProject(r) /\ Answered(r, 200)) =>
            Targets(r) = <<UserUrl, LogTable>>

C4_Witness ==
    \E r \in Requests : IsProject(r) /\ Answered(r, 200) /\ supabaseLogged[r]

\* C5: a request whose parsed body fails validation is answered 400 by the
\* validation step itself, has issued no call and no log insert, and all four
\* outcome flags are false.
C5_InvalidInputRejected ==
    \A r \in Requests :
        (Validated(r) /\ FailsValidation(formData[r])) =>
            /\ Answered(r, 400)
            /\ calls[r] = <<>>
            /\ NoFlag(r)

C5_Witness ==
    \E r \in Requests :
        /\ Validated(r)
        /\ formData[r].name = Str("u1")
        /\ ~Truthy(formData[r].password)
        /\ IsPersonal(r)
        /\ Answered(r, 400)

\* C6: a create-account call is only ever issued for a request whose
\* usageType is personal or project; any other usageType is answered 400 with
\* no call.
C6_UsageClassChecked ==
    \A r \in Requests :
        /\ Issued(r, UserUrl) => (IsPersonal(r) \/ IsProject(r))
        /\ (pc[r] = "done" /\ Validated(r) /\ Configured
              /\ ~IsPersonal(r) /\ ~IsProject(r)) =>
               response[r].status = 400 /\ calls[r] = <<>>

\* the pool and the quota (decimal bytes) the tier table gives for q GB
PolicyPool(q) ==
    IF q > 0 /\ q <= 100 THEN "student-50-100"
    ELSE IF q > 100 /\ q <= 500 THEN "student-500"
    ELSE "student-1000"

PolicyQuota(q) ==
    IF q > 0 /\ q <= 100 THEN "107374182400"
    ELSE IF q > 100 /\ q <= 500 THEN "536870912000"
    ELSE "1099511627776"

\* C7: every personal request with a positive quota that gets past the
\* configuration check is given a tier (none is rejected or thrown out by
\* the selector), and the create-dataset payload is named
\* <pool>/users/<name> and carries the quota of the tier table: 100 GiB up to
\* 100, 500 GiB up to 500, 1 TiB up to 1024 and above, in bytes of 1024^3.
C7_TierSelection ==
    \A r \in Requests :
        (IsPersonal(r) /\ pc[r] \notin {"idle", "validate", "config", "tier"}
           /\ Configured /\ ~FailsValidation(formData[r])) =>
            LET q == formData[r].storageQuota.n IN
            /\ poolNameToUse[r] = Str(PolicyPool(q))
            /\ pc[r] # "dataset" =>
                 /\ Len(calls[r]) >= 1
                 /\ calls[r][1].url = DatasetUrl
                 /\ calls[r][1].body.name = PolicyPool(q) \o "/users/" \o formData[r].name.s
                 /\ BytesToStr(calls[r][1].body.quota) = PolicyQuota(q)

C7_Witness ==
    \E r \in Requests :
        /\ IsPersonal(r)
        /\ formData[r].storageQuota = Num(1025)
        /\ Issued(r, DatasetUrl)
        /\ calls[r][1].body.name = "student-1000/users/u1"


\* C8: an answer is a 200, a 400 or a 500; it is a 400 exactly when the
\* parsed body fails validation; it is a 500 whenever a call or the log
\* insert has failed; and it is a 200 only with the account created and
\* either the dataset created and the ACL set, or the log entry recorded.
C8_ResponseStatus ==
    \A r \in Requests :
        pc[r] = "done" =>
            /\ response[r].status \in {200, 400, 500}
            /\ response[r].status = 400 <=>
                   (Validated(r) /\ FailsValidation(formData[r]))
            /\ (\E i \in 1..Len(calls[r]) : calls[r][i].outcome = "threw") =>
                   response[r].status = 500
            /\ response[r].status = 200 =>
                   /\ userCreated[r]
                   /\ (datasetCreated[r] /\ aclSet[r]) \/ supabaseLogged[r]

\* C9: the row inserted into the durable log has exactly the fields
\* user_name, requested_quota_gb and created_at; user_name is the request's
\* name, requested_quota_gb is the requested quota or null, and no field
\* holds the request's password.
C9_LogRowHasNoSecret ==
    \A r \in Requests : \A i \in 1..Len(calls[r]) :
        calls[r][i].url = LogTable =>
            LET row == calls[r][i].body IN
            /\ DOMAIN row = {"user_name", "requested_quota_gb", "created_at"}
            /\ row.user_name = formData[r].name
            /\ row.requested_quota_gb \in {formData[r].storageQuota, Undef}
            /\ row.created_at.s \in Dates
            /\ \A k \in DOMAIN row : row[k] # formData[r].password

C9_Witness ==
    \E r \in Requests :
        /\ IsProject(r)
        /\ formData[r].password = Str("hunter2")
        /\ Issued(r, LogTable)
        /\ supabaseLogged[r]

\* C10: no line written to the console in the course of a request, the
\* payload line written before each remote call included, contains the
\* request's password.
C10_PasswordNeverLogged ==
    \A r \in Requests : \A i \in 1..Len(console[r]) :
        ~Missing(formData[r].password) =>
            ~Includes(console[r][i].text, formData[r].password.s)


ConfigError == [status |-> 500, body |-> [message |-> "Server configuration error"]]

\* C11 as stated: whenever the base URL or the token is missing, the answer
\* is the 500 configuration error, whether or not the body is valid, and no
\* remote call is made.
C11_ConfigCheckedFirst ==
    \A r \in Requests :
        ~Configured =>
            /\ calls[r] = <<>>
            /\ pc[r] = "done" => response[r] = ConfigError

\* C11, amended: with the base URL or the token missing no call is ever
\* made; the body is read and validated first, so a body that fails
\* validation is answered 400, a body that cannot be parsed is answered by the
\* catch block, and every body that passes validation is answered with the
\* 500 configuration error.
C11_ConfigCheckedAfterValidation ==
    \A r \in Requests :
        ~Configured =>
            /\ calls[r] = <<>>
            /\ (pc[r] = "done" /\ Validated(r)) =>
                   IF FailsValidation(formData[r])
                   THEN response[r].status = 400
                   ELSE response[r] = ConfigError
            /\ (pc[r] = "done" /\ ~Validated(r)) =>
                   /\ response[r].status = 500
                   /\ response[r] # ConfigError

C11_Witness ==
    \E r \in Requests :
        /\ env.TRUENAS_URL # Undef
        /\ env.API_TOKEN = Undef
        /\ ~FailsValidation(formData[r])
        /\ pc[r] = "done"
        /\ response[r] = ConfigError

\* C12: every answer with status 400 or 500 carries a message and an error
\* field, and every answer with status 200 carries a message field only.
C12_ResponseShape ==
    \A r \in Requests :
        pc[r] = "done" =>
            /\ response[r].status \in {400, 500} =>
                   DOMAIN response[r].body = {"message", "error"}
            /\ response[r].status = 200 =>
                   DOMAIN response[r].body = {"message"}


ParentMissing == "Parent dataset does not exist"

\* C13: when the create-dataset call has failed, the answer is a 500 whose
\* error is "Parent dataset for <path> does not exist. Please create it
\* first." if the error text of the failed call contains "Parent dataset does
\* not exist", and otherwise the generic "Failed to create prerequisite
\* dataset <path>. User not created. Original error: <text>"; in both cases
\* no create-account call is made.
C13_DatasetFailureMessage ==
    \A r \in Requests :
        (Failed(r, DatasetUrl) /\ pc[r] = "done") =>
            LET path == calls[r][1].body.name
                text == calls[r][1].error
            IN  /\ response[r].status = 500
                /\ response[r].body.message = "Failed to process request"
                /\ response[r].body.error =
                     IF Includes(text, ParentMissing)
                     THEN "Parent dataset for " \o path
                          \o " does not exist. Please create it first."
                     ELSE "Failed to create prerequisite dataset " \o path
                          \o ". User not created. Original error: " \o text
                /\ ~Issued(r, UserUrl)

C13_Witness ==
    \E r \in Requests :
        /\ Failed(r, DatasetUrl)
        /\ calls[r][1].reply.status = 422
        /\ Includes(calls[r][1].reply.text, ParentMissing)
        /\ pc[r] = "done"
        /\ response[r].body.error =
             "Parent dataset for student-500/users/u1 does not exist. Please create it first."


TierPools == {"student-50-100", "student-500", "student-1000"}

\* the fallback pool: the configured POOL_NAME, or tank
FallbackPool == IF Missing(env.POOL_NAME) THEN "tank" ELSE env.POOL_NAME.s

UserHome(r) == "/users/" \o formData[r].name.s

\* the payloads of a personal request name one location: the dataset is
\* <tier pool>/users/<name>, the account's home is /mnt/ + that name, and the
\* setacl path is the account's home
PersonalLocations(r) ==
    \A i \in 1..Len(calls[r]) :
        /\ calls[r][i].url = DatasetUrl =>
               calls[r][i].body.name
                   = PolicyPool(formData[r].storageQuota.n) \o UserHome(r)
        /\ calls[r][i].url = UserUrl =>
               /\ calls[r][1].url = DatasetUrl
               /\ calls[r][i].body.home = "/mnt/" \o calls[r][1].body.name
        /\ calls[r][i].url = AclUrl =>
               /\ calls[r][2].url = UserUrl
               /\ calls[r][i].body.path = calls[r][2].body.home

IsTierPath(r, home) == \E p \in TierPools : home = "/mnt/" \o p \o UserHome(r)

\* C14 as stated: for a personal request the three payloads name the same
\* location; for a project request the account's home is
\* /mnt/<fallback pool>/users/<name> and never a tier pool path.
C14_SameLocation ==
    \A r \in Requests :
        /\ IsPersonal(r) => PersonalLocations(r)
        /\ IsProject(r) =>
             \A i \in 1..Len(calls[r]) :
                 calls[r][i].url = UserUrl =>
                     /\ calls[r][i].body.home = "/mnt/" \o FallbackPool \o UserHome(r)
                     /\ ~IsTierPath(r, calls[r][i].body.home)

\* C14, amended: for a personal request the three payloads name the same
\* location; for a project request no tier is selected (poolNameToUse and
\* homeDirectoryPath stay undefined whatever storageQuota is) and the
\* account's home is /mnt/<fallback pool>/users/<name>, which is a tier pool
\* path only when POOL_NAME is itself configured to a tier pool.
C14_SameLocationOrFallback ==
    \A r \in Requests :
        /\ IsPersonal(r) => PersonalLocations(r)
        /\ IsProject(r) =>
             /\ poolNameToUse[r] = Undef
             /\ homeDirectoryPath[r] = Undef
             /\ \A i \in 1..Len(calls[r]) :
                    calls[r][i].url = UserUrl =>
                        /\ calls[r][i].body.home = "/mnt/" \o FallbackPool \o UserHome(r)
                        /\ IsTierPath(r, calls[r][i].body.home)
                               <=> FallbackPool \in TierPools

C14_Witness ==
    \E r \in Requests :
        /\ IsPersonal(r)
        /\ Len(calls[r]) = 3
        /\ calls[r][1].body.name = "student-1000/users/u1"
        /\ calls[r][2].body.home = "/mnt/student-1000/users/u1"
        /\ calls[r][3].body.path = "/mnt/student-1000/users/u1"


\* C15: the only calls a request makes are the create-dataset, create-account
\* and setacl POSTs and the log insert; when the setacl call or the log
\* insert has failed after the earlier steps succeeded, nothing is called
\* after it (no compensating call), the earlier calls stand as returned with
\* their flags set, and the answer is a 500.
C15_NoCompensation ==
    \A r \in Requests :
        /\ \A i \in 1..Len(calls[r]) :
               \/ calls[r][i].url \in {DatasetUrl, UserUrl, AclUrl}
                    /\ calls[r][i].method = "POST"
               \/ calls[r][i].url = LogTable /\ calls[r][i].method = "insert"
        /\ Failed(r, AclUrl) =>
               /\ Targets(r) = <<DatasetUrl, UserUrl, AclUrl>>
               /\ calls[r][1].outcome = "returned" /\ calls[r][2].outcome = "returned"
               /\ datasetCreated[r] /\ userCreated[r] /\ ~aclSet[r]
               /\ pc[r] \in {"catch", "done"}
               /\ pc[r] = "done" => response[r].status = 500
        /\ Failed(r, LogTable) =>
               /\ Targets(r) = <<UserUrl, LogTable>>
               /\ calls[r][1].outcome = "returned"
               /\ userCreated[r] /\ ~supabaseLogged[r]
               /\ pc[r] \in {"catch", "done"}
               /\ pc[r] = "done" => response[r].status = 500

C15_Witness ==
    \E r \in Requests :
        /\ Failed(r, AclUrl)
        /\ datasetCreated[r] /\ userCreated[r]
        /\ Answered(r, 500)


\* C16: within one request each of create-dataset, create-account, setacl
\* and the log insert is invoked at most once, whether it returns or throws:
\* no two calls of a request have the same target, and only the last call
\* can be awaiting its reply.
C16_NoRetry ==
    \A r \in Requests : \A i, j \in 1..Len(calls[r]) :
        /\ calls[r][i].url = calls[r][j].url => i = j
        /\ calls[r][i].outcome = "pending" => i = Len(calls[r])
        /\ calls[r][i].outcome = "threw" => i = Len(calls[r])

C16_Witness ==
    \E r \in Requests :
        /\ Targets(r) = <<DatasetUrl, UserUrl>>
        /\ calls[r][1].outcome = "returned"
        /\ calls[r][2].outcome = "threw"
        /\ pc[r] = "done"


ParseFailure == "Failed to parse TrueNAS API JSON response."
RemoteRejection == "TrueNAS API request failed: "

\* a 2xx reply with a non-empty body declared as JSON that does not decode
Undecodable(reply) ==
    /\ ~reply.net
    /\ reply.status >= 200 /\ reply.status <= 299
    /\ reply.contentType # Undef
    /\ Includes(reply.contentType.s, "application/json")
    /\ reply.text # ""
    /\ ~reply.parses

\* the completion flag of the step that calls url
StepFlag(r, url) ==
    IF url = DatasetUrl THEN datasetCreated[r]
    ELSE IF url = UserUrl THEN userCreated[r]
    ELSE aclSet[r]

\* the appliance calls of request r that have come back
Settled(r) ==
    {i \in 1..Len(calls[r]) : calls[r][i].url # LogTable /\ calls[r][i].outcome # "pending"}

\* C17: when a remote call comes back 2xx with a body declared as JSON that
\* cannot be decoded, the step has failed: its flag stays false, no further
\* call is made and the answer is a 500 whose error is the parse failure,
\* not the remote-rejection error; a non-2xx reply is the one reported with
\* the remote-rejection error carrying status and body.
C17_UndecodableBodyFails ==
    \A r \in Requests : \A i \in Settled(r) :
        LET c == calls[r][i] IN
        /\ Undecodable(c.reply) =>
               /\ c.outcome = "threw"
               /\ c.error = ParseFailure
               /\ i = Len(calls[r])
               /\ ~StepFlag(r, c.url)
               /\ pc[r] \in {"catch", "done"}
               /\ pc[r] = "done" =>
                      /\ response[r].status = 500
                      /\ Includes(response[r].body.error, ParseFailure)
                      /\ ~Includes(response[r].body.error, RemoteRejection)
        /\ (~c.reply.net /\ ~(c.reply.status >= 200 /\ c.reply.status <= 299)) =>
               /\ c.outcome = "threw"
               /\ c.error = RemoteRejection \o ToString(c.reply.status) \o " "
                              \o c.reply.statusText \o " - " \o c.reply.text
               /\ ~Includes(c.error, ParseFailure)

C17_Witness ==
    \E r \in Requests :
        /\ Len(calls[r]) = 2
        /\ calls[r][2].url = UserUrl
        /\ calls[r][2].outcome = "threw"
        /\ Undecodable(calls[r][2].reply)
        /\ datasetCreated[r] /\ ~userCreated[r]
        /\ Answered(r, 500)
        /\ response[r].body.error = ParseFailure


\* how far along POST a position is
Rank(label) ==
    CASE label = "idle" -> 0
      [] label = "validate" -> 1
      [] label = "config" -> 2
      [] label = "tier" -> 3
      [] label = "dataset" -> 4
      [] label = "dataset_wait" -> 5
      [] label = "user" -> 6
      [] label = "user_wait" -> 7
      [] label = "branch" -> 8
      [] label \in {"acl_wait", "log_wait"} -> 9
      [] label \in {"success", "catch"} -> 10
      [] label = "done" -> 11

\* C18: with every call and insert coming back, a request that has started
\* is eventually answered with a 200, 400 or 500; each of its steps moves it
\* strictly forward through POST (so it takes at most 11 steps and never
\* loops); it has no response before it ends, and once it has ended its
\* response never changes.
C18_Terminates ==
    /\ \A r \in Requests :
           (pc[r] # "idle") ~>
               (pc[r] = "done" /\ response[r].status \in {200, 400, 500})
    /\ [][\A r \in Requests :
              /\ pc'[r] # pc[r] => Rank(pc'[r]) > Rank(pc[r])
              /\ pc[r] = "done" => pc'[r] = "done" /\ response'[r] = response[r]
              /\ pc'[r] # "done" => response'[r] = NoResponse]_vars

C18_Witness ==
    \E r \in Requests :
        /\ pc[r] = "done"
        /\ response[r].status = 200
        /\ Len(calls[r]) = 3
        /\ \A i \in 1..3 : calls[r][i].outcome = "returned"


\* everything request r holds: its position, body, flags, locals, calls,
\* console lines, pending error and response
Own(r) ==
    <<pc[r], formData[r], datasetCreated[r], supabaseLogged[r], userCreated[r], aclSet[r],
      homeDirectoryPath[r], poolNameToUse[r], quotaInBytes[r], calls[r], console[r],
      thrown[r], response[r]>>

\* what request.json() gave request r: whether it resolved, and to what
Body(r) == <<thrown[r] = "Unexpected end of JSON input", formData[r]>>

\* the replies that have come back to the calls of request r
Replies(r) == [i \in 1..Len(calls[r]) |-> calls[r][i].reply]

\* C19: with two requests interleaved, a step of one request changes
\* nothing the other holds and nothing of the configuration; and what a
\* request holds is a function of its own body, its position and the
\* replies to its own calls: two requests with the same body, at the same
\* position, with the same replies hold the same flags, pool, paths, calls
\* and response, however the other's steps fell between theirs.
C19_Isolation ==
    /\ [][\A r \in Requests :
              POST(r) => /\ env' = env
                         /\ \A o \in Requests \ {r} : Own(o)' = Own(o)]_vars
    /\ [](\A r, o \in Requests :
              (Body(r) = Body(o) /\ pc[r] = pc[o] /\ Replies(r) = Replies(o))
                  => Own(r) = Own(o))

C19_Witness ==
    /\ formData[1].usageType = Str("personal")
    /\ formData[2].usageType = Str("project")
    /\ pc[1] = "acl_wait"
    /\ pc[2] = "log_wait"
    /\ datasetCreated[1] /\ userCreated[1]
    /\ ~datasetCreated[2] /\ userCreated[2]


FlagsConsistent(r) ==
    /\ aclSet[r] => datasetCreated[r] /\ userCreated[r]
    /\ supabaseLogged[r] => userCreated[r] /\ ~datasetCreated[r]
    /\ ~(aclSet[r] /\ supabaseLogged[r])
    /\ datasetCreated[r] => formData[r].usageType = Str("personal")

\* C20: in every state of a request aclSet implies datasetCreated and
\* userCreated, supabaseLogged implies userCreated and not datasetCreated,
\* aclSet and supabaseLogged are never both true and datasetCreated is true
\* only for usageType personal; and no step resets a flag that is true.
C20_FlagInvariants ==
    /\ [](\A r \in Requests : FlagsConsistent(r))
    /\ [][\A r \in Requests :
              /\ datasetCreated[r] => datasetCreated'[r]
              /\ userCreated[r] => userCreated'[r]
              /\ aclSet[r] => aclSet'[r]
              /\ supabaseLogged[r] => supabaseLogged'[r]]_vars

C20_Witness ==
    \E r \in Requests :
        /\ aclSet[r] /\ datasetCreated[r] /\ userCreated[r] /\ ~supabaseLogged[r]
        /\ pc[r] = "done"

====
